---- MODULE Spec2Model ----
(***************************************************************************)
(* Proof-of-work mining engine of blockchain_mining/src/main.rs:           *)
(* Block (calculate_hash, mine, mining_competition, is_valid) and          *)
(* Blockchain (new, add_mined_block, block_competition, adjust_difficulty, *)
(* set_difficulty).                                                        *)
(*                                                                         *)
(* Strings are sequences of character codes: 0..9 are the characters       *)
(* '0'..'9', 10..15 are 'a'..'f', larger codes are other characters.  A    *)
(* decimal rendering and a lowercase hex digest therefore share the codes  *)
(* of the digits they share, as the Rust strings do.                       *)
(*                                                                         *)
(* Time is counted in ticks of 1/TicksPerSec second since the Unix epoch;  *)
(* DateTime<Utc> keeps sub-second precision, DateTime::timestamp() returns *)
(* whole seconds.                                                          *)
(***************************************************************************)
EXTENDS Integers, Sequences, FiniteSets, TLC

\* ---------------------------------------------------------------- bounds
\* Longest chain the model builds (genesis included) when every menu
\* option is used.
MaxChain == 4
\* Longest chain the model builds when only "Mine a new block" is used.
MaxMinedChain == 6
\* Largest nonce the sequential search tries before the model stops following it.
MaxNonce == 9
\* Random nonces drawn by the competition are 0..MaxRandNonce.
MaxRandNonce == 2
\* Most attempts a competition makes before the model stops following it.
MaxAttempts == 2
\* Longest manual-override audit log the model builds.
MaxChanges == 1
\* A miner's batch in one round is BatchLo..BatchHi-1 attempts (the source
\* draws it from 1000..5000).
BatchLo == 1
BatchHi == 3
\* Width in bits of the model's u64 (the source's is 64).
U64Bits == 7
\* Clock resolution of the model: ticks per second.
TicksPerSec == 2

\* Length of a digest in hex characters (SHA-256's is 64).
HashLen == 8
\* Most competition blocks the model puts in one chain.
MaxCompetitions == 1

\* ------------------------------------------------------ program constants
GenesisDifficulty == 2
InitialDifficulty == 2
InitialTargetTime == 10
WarnThreshold == 10

U64Max == 2^U64Bits - 1
\* isize::MAX, the largest capacity a String can be given.
IsizeMax == 2^(U64Bits - 1) - 1

\* ------------------------------------------------------------ input sets
\* Time that may pass between two readings of the wall clock, in ticks:
\* one tick (less than a second), 10 seconds, 30 seconds.
Deltas == {1, 10 * TicksPerSec, 30 * TicksPerSec}
\* Block payloads typed by the operator: "k".
DataSet == {<<20>>}
\* Values typed at "Enter new difficulty": 0, the initial difficulty, a value
\* above the warning threshold (and above the digest length), u64::MAX.
DifficultyInputs == {0, InitialDifficulty, WarnThreshold + 1, U64Max}
\* Values typed at "Enter number of miners competing".
MinerCounts == {0, 1, 2}
\* The clock reading at which the program starts.
StartTick == 0

Min(a, b) == IF a < b THEN a ELSE b

\* ------------------------------------------------------------ formatting
\* format!("{}", n) of an unsigned integer.
RECURSIVE ToDecimal(_)
ToDecimal(n) == IF n < 10 THEN <<n>> ELSE ToDecimal(n \div 10) \o <<n % 10>>

\* "0".repeat(n)
Repeat0(n) == [i \in 1..n |-> 0]

\* Whether "0".repeat(n) panics: building the target string of mine and
\* mining_competition asks for a capacity of n bytes, and a capacity above
\* isize::MAX is refused with a "capacity overflow" panic.  (Lengths up to
\* isize::MAX are taken to be allocated.)
repeat_panics(n) == n > IsizeMax

\* str::starts_with
starts_with(s, prefix) ==
    /\ Len(prefix) <= Len(s)
    /\ SubSeq(s, 1, Len(prefix)) = prefix

\* DateTime::timestamp(): whole seconds since the epoch.
timestamp_secs(t) == t \div TicksPerSec

\* ---------------------------------------------------------------- digest
\* Stand-in for SHA-256: a deterministic function of the bytes fed to the
\* hasher.  Mix folds bytes lo..hi of the content into a 10-bit checksum,
\* each byte weighted by an odd weight that depends on its position.
RECURSIVE Mix(_, _, _)
Mix(content, lo, hi) ==
    IF lo > hi THEN 0
    ELSE IF lo = hi
         THEN ((content[lo] + 1) * (5 + 13 * lo + 7 * lo * lo)) % 1024
    ELSE LET mid == (lo + hi) \div 2
         IN  (Mix(content, lo, mid) + Mix(content, mid + 1, hi)) % 1024

\* format!("{:x}", hasher.finalize()): HashLen lowercase hex digits.  Digit i
\* is '0' exactly when bit (i-1) mod 10 of the checksum is clear.
Sha256Hex(content) ==
    LET t == Mix(content, 1, Len(content))
    IN  [i \in 1..HashLen |->
            IF (t \div 2^((i - 1) % 10)) % 2 = 0 THEN 0
            ELSE 1 + ((t + i) % 15)]

\* ----------------------------------------------------------------- Block
\* A Block::new that leaves the timestamp at the epoch instead of reading
\* the clock.
BlockNew_epoch(index, data, previous_hash, difficulty, now) ==
    [index |-> index, timestamp |-> 0, data |-> data,
     previous_hash |-> previous_hash, hash |-> <<>>, nonce |-> 0,
     difficulty |-> difficulty]

\* Block::new(index, data, previous_hash, difficulty) at clock reading now.
BlockNew(index, data, previous_hash, difficulty, now) ==
    [index |-> index, timestamp |-> now, data |-> data,
     previous_hash |-> previous_hash, hash |-> <<>>, nonce |-> 0,
     difficulty |-> difficulty]

\* The string hashed by calculate_hash: format!("{}{}{}{}{}{}", index,
\* timestamp.timestamp(), data, previous_hash, nonce, difficulty).
content(b) ==
    ToDecimal(b.index) \o ToDecimal(timestamp_secs(b.timestamp))
    \o b.data \o b.previous_hash \o ToDecimal(b.nonce)
    \o ToDecimal(b.difficulty)

\* Block::calculate_hash
calculate_hash(b) == Sha256Hex(content(b))

\* A success test that asks for one zero too few.
meets_target_short(b) == starts_with(b.hash, Repeat0(b.difficulty - 1))

\* The test `self.hash.starts_with(&target)` of mine and mining_competition.
meets_target(b) == starts_with(b.hash, Repeat0(b.difficulty))

\* An is_valid that only compares the recomputed hash with the stored one.
is_valid_hash_only(b) == calculate_hash(b) = b.hash

\* Block::is_valid
is_valid(b) ==
    /\ calculate_hash(b) = b.hash
    /\ starts_with(b.hash, Repeat0(b.difficulty))

\* An attempt that increments the nonce before the success test.
rehash_bump(b) == [b EXCEPT !.hash = calculate_hash(b), !.nonce = b.nonce + 1]

\* The assignment `self.hash = self.calculate_hash()` that opens every
\* attempt of mine and mining_competition.
rehash(b) == [b EXCEPT !.hash = calculate_hash(b)]

\* Block::mine run to completion from block b (used for the genesis block,
\* which Blockchain::new mines before the program takes any input).
RECURSIVE mine(_)
mine(b) ==
    IF meets_target(rehash(b)) THEN rehash(b)
    ELSE mine([b EXCEPT !.nonce = b.nonce + 1])

\* Block::genesis: "Genesis" payload, sentinel previous hash "0".
GenesisData == <<16, 17>>
\* A genesis block with an empty previous hash.
genesis_unlinked(now) ==
    mine(BlockNew(0, GenesisData, <<>>, GenesisDifficulty, now))

genesis(now) == mine(BlockNew(0, GenesisData, <<0>>, GenesisDifficulty, now))

\* ------------------------------------------------------------ Blockchain
VARIABLES
    chain,                      \* Blockchain.chain
    difficulty,                 \* Blockchain.difficulty
    target_time,                \* Blockchain.target_time
    mining_stats,               \* Blockchain.mining_stats
    manual_difficulty_changes,  \* Blockchain.manual_difficulty_changes
    now,                        \* last reading of the wall clock, in ticks
    pc,                         \* where the program is: "idle" (at the menu),
                                \* "mine" (inside Block::mine),
                                \* "compete" (inside Block::mining_competition),
                                \* "panicked" (aborted by a panic)
    new_block,                  \* the block being mined (new_block / self)
    attempts,                   \* Block::mine's attempts
    race,                       \* mining_competition's num_miners, miner_id,
                                \* attempts left in the batch, attempts_per_miner
    adj,                        \* adjust_difficulty's locals in the current call
    ret                         \* value returned by the last completed call

vars == <<chain, difficulty, target_time, mining_stats,
          manual_difficulty_changes, now, pc, new_block, attempts, race,
          adj, ret>>

NoBlock == BlockNew(0, <<>>, <<>>, 0, 0)
NoRace  == [num_miners |-> 0, miner_id |-> 0, left |-> 0,
            attempts_per_miner |-> <<>>]
NoAdj   == [ran |-> FALSE, before |-> 0, recent_blocks |-> 0, total_time |-> 0]
NoRet   == [call |-> "none", ok |-> FALSE, n |-> 0]

\* A Blockchain::new whose statistics log starts with a placeholder entry
\* for the genesis block.
Init_logged ==
    /\ now = StartTick
    /\ chain = <<genesis(StartTick)>>
    /\ difficulty = InitialDifficulty
    /\ target_time = InitialTargetTime
    /\ mining_stats = <<[attempts |-> 0, total_time |-> 0,
                         method |-> "Competition"]>>
    /\ manual_difficulty_changes = <<>>
    /\ pc = "idle"
    /\ new_block = NoBlock
    /\ attempts = 0
    /\ race = NoRace
    /\ adj = NoAdj
    /\ ret = NoRet

\* Blockchain::new, run to completion: the chain holds the mined genesis.
Init ==
    /\ now = StartTick
    /\ chain = <<genesis(StartTick)>>
    /\ difficulty = InitialDifficulty
    /\ target_time = InitialTargetTime
    /\ mining_stats = <<>>
    /\ manual_difficulty_changes = <<>>
    /\ pc = "idle"
    /\ new_block = NoBlock
    /\ attempts = 0
    /\ race = NoRace
    /\ adj = NoAdj
    /\ ret = NoRet

\* Blockchain::last_block
last_block(c) == c[Len(c)]

\* A skeleton linked to the first block of the chain instead of its tail.
skeleton_stale(c, data, d, t) ==
    BlockNew(last_block(c).index + 1, data, c[1].hash, d, t)

\* The block skeleton add_mined_block and block_competition build on the
\* tail of chain c: index last_index + 1, previous_hash last_hash.
skeleton(c, data, d, t) ==
    LET last_index == last_block(c).index
        last_hash  == last_block(c).hash
        new_index  == last_index + 1
    IN  BlockNew(new_index, data, last_hash, d, t)

\* An insertion at the front of the vector.
push_front(c, b) == <<b>> \o c

\* self.chain.push(block)
push(c, b) == Append(c, b)

\* ----------------------------------------------------- adjust_difficulty
\* A window that forgets the cap of 3 intervals.
recent_blocks_all(c) == Len(c) - 1

\* let recent_blocks = min(3, self.chain.len() - 1)
recent_blocks(c) == Min(3, Len(c) - 1)

\* The loop `for i in (len - recent_blocks)..len` with its `if i > 0`; the
\* source's i is 0-based, position k here is the source's i = k - 1.
RECURSIVE sum_diffs(_, _)
sum_diffs(c, k) ==
    IF k > Len(c) THEN 0
    ELSE (IF k - 1 > 0
          THEN timestamp_secs(c[k].timestamp) - timestamp_secs(c[k-1].timestamp)
          ELSE 0) + sum_diffs(c, k + 1)

total_time(c) == sum_diffs(c, Len(c) - recent_blocks(c) + 1)

\* avg_time < target_time / 2.0 and avg_time > target_time * 2.0, where
\* avg_time = total_time / recent_blocks in f64 (exact at these magnitudes).
too_fast(c, target) == 2 * total_time(c) < target * recent_blocks(c)
too_slow(c, target) == total_time(c) > 2 * target * recent_blocks(c)

\* The outcomes of one call of adjust_difficulty: the new difficulty and
\* whether the call panicked.  `self.difficulty += 1` at u64::MAX panics in
\* a build with overflow checks and wraps to 0 in a build without.
adjust_difficulty(c, d, target) ==
    IF Len(c) < 2 THEN {[difficulty |-> d, panicked |-> FALSE]}
    ELSE IF too_fast(c, target)
         THEN IF d = U64Max
              THEN {[difficulty |-> (d + 1) % 2^U64Bits, panicked |-> FALSE],
                    [difficulty |-> d, panicked |-> TRUE]}
              ELSE {[difficulty |-> d + 1, panicked |-> FALSE]}
    ELSE IF too_slow(c, target) /\ d > 1
         THEN {[difficulty |-> d - 1, panicked |-> FALSE]}
    ELSE {[difficulty |-> d, panicked |-> FALSE]}

\* adjust_difficulty's locals, kept while the call that ran it is mining.
adjust_locals(c, d) ==
    IF Len(c) < 2 THEN [NoAdj EXCEPT !.before = d]
    ELSE [ran |-> TRUE, before |-> d, recent_blocks |-> recent_blocks(c),
          total_time |-> total_time(c)]

\* ------------------------------------------------------- add_mined_block
\* add_mined_block up to the first pass of Block::mine's loop: snapshot of
\* the tail, adjust_difficulty, Block::new (which reads the clock), and the
\* target string that mine builds before its loop.  A panic in
\* adjust_difficulty or in building the target ends the program.
\* An add_mined_block that builds the block before adjust_difficulty runs.
add_mined_block_early(data, dt) ==
    /\ pc = "idle"
    /\ \E o \in adjust_difficulty(chain, difficulty, target_time) :
          /\ adj' = adjust_locals(chain, difficulty)
          /\ ret' = NoRet
          /\ IF o.panicked
             THEN /\ pc' = "panicked"
                  /\ UNCHANGED <<difficulty, now, new_block>>
             ELSE IF repeat_panics(o.difficulty)
             THEN /\ pc' = "panicked"
                  /\ difficulty' = o.difficulty
                  /\ UNCHANGED <<now, new_block>>
             ELSE /\ pc' = "mine"
                  /\ difficulty' = o.difficulty
                  /\ now' = now + dt
                  /\ new_block' = skeleton(chain, data, difficulty, now + dt)
    /\ attempts' = 0
    /\ UNCHANGED <<chain, target_time, mining_stats,
                   manual_difficulty_changes, race>>

add_mined_block_begin(data, dt) ==
    /\ pc = "idle"
    /\ \E o \in adjust_difficulty(chain, difficulty, target_time) :
          /\ adj' = adjust_locals(chain, difficulty)
          /\ ret' = NoRet
          /\ IF o.panicked
             THEN /\ pc' = "panicked"
                  /\ UNCHANGED <<difficulty, now, new_block>>
             ELSE IF repeat_panics(o.difficulty)
             THEN /\ pc' = "panicked"
                  /\ difficulty' = o.difficulty
                  /\ UNCHANGED <<now, new_block>>
             ELSE /\ pc' = "mine"
                  /\ difficulty' = o.difficulty
                  /\ now' = now + dt
                  /\ new_block' = skeleton(chain, data, o.difficulty,
                                           now + dt)
    /\ attempts' = 0
    /\ UNCHANGED <<chain, target_time, mining_stats,
                   manual_difficulty_changes, race>>

\* One pass of the loop of Block::mine; on success mine reads
\* start.elapsed() (the search took that long, so the clock has moved on by
\* as much), returns, and add_mined_block pushes the block and its
\* statistics and returns them.
\* A search that skips every other nonce.
mine_step_skip(elapsed) ==
    /\ pc = "mine"
    /\ new_block.nonce <= MaxNonce
    /\ LET b == rehash(new_block)
           n == attempts + 1
       IN  IF meets_target(b)
           THEN /\ chain' = push(chain, b)
                /\ mining_stats' = push(mining_stats,
                       [attempts |-> n, total_time |-> elapsed,
                        method |-> "Normal"])
                /\ ret' = [call |-> "add_mined_block", ok |-> TRUE, n |-> n]
                /\ pc' = "idle"
                /\ new_block' = NoBlock
                /\ attempts' = 0
                /\ adj' = NoAdj
                /\ now' = now + elapsed
           ELSE /\ new_block' = [b EXCEPT !.nonce = b.nonce + 2]
                /\ attempts' = n
                /\ UNCHANGED <<chain, mining_stats, ret, pc, adj, now>>
    /\ UNCHANGED <<difficulty, target_time, manual_difficulty_changes, race>>

mine_step(elapsed) ==
    /\ pc = "mine"
    /\ new_block.nonce <= MaxNonce
    /\ LET b == rehash(new_block)
           n == attempts + 1
       IN  IF meets_target(b)
           THEN /\ chain' = push(chain, b)
                /\ mining_stats' = push(mining_stats,
                       [attempts |-> n, total_time |-> elapsed,
                        method |-> "Normal"])
                /\ ret' = [call |-> "add_mined_block", ok |-> TRUE, n |-> n]
                /\ pc' = "idle"
                /\ new_block' = NoBlock
                /\ attempts' = 0
                /\ adj' = NoAdj
                /\ now' = now + elapsed
           ELSE /\ new_block' = [b EXCEPT !.nonce = b.nonce + 1]
                /\ attempts' = n
                /\ UNCHANGED <<chain, mining_stats, ret, pc, adj, now>>
    /\ UNCHANGED <<difficulty, target_time, manual_difficulty_changes, race>>

\* ----------------------------------------------------- block_competition
RECURSIVE sum(_)
sum(xs) == IF xs = <<>> THEN 0 ELSE Head(xs) + sum(Tail(xs))

\* Number of competition blocks in the chain, read off mining_stats.
competitions == Cardinality({i \in 1..Len(mining_stats) :
                                mining_stats[i].method = "Competition"})

\* A block_competition that lets one miner compete when asked for none.
block_competition_begin_clamped(data, num_miners, dt) ==
    /\ pc = "idle"
    /\ competitions < MaxCompetitions
    /\ \E o \in adjust_difficulty(chain, difficulty, target_time) :
          /\ adj' = adjust_locals(chain, difficulty)
          /\ ret' = NoRet
          /\ IF o.panicked
             THEN /\ pc' = "panicked"
                  /\ UNCHANGED <<difficulty, now, new_block, race>>
             ELSE IF repeat_panics(o.difficulty)
             THEN /\ pc' = "panicked"
                  /\ difficulty' = o.difficulty
                  /\ UNCHANGED <<now, new_block, race>>
             ELSE /\ pc' = "compete"
                  /\ difficulty' = o.difficulty
                  /\ now' = now + dt
                  /\ new_block' = skeleton(chain, data, o.difficulty,
                                           now + dt)
                  /\ race' = [num_miners |-> IF num_miners = 0 THEN 1
                                             ELSE num_miners, miner_id |-> 0,
                              left |-> 0,
                              attempts_per_miner |->
                                  [i \in 1..(IF num_miners = 0 THEN 1
                                               ELSE num_miners) |-> 0]]
    /\ UNCHANGED <<chain, target_time, mining_stats,
                   manual_difficulty_changes, attempts>>

\* block_competition up to the first pass of mining_competition's loop:
\* snapshot of the tail, adjust_difficulty, Block::new, the target string
\* and the zeroed attempts_per_miner.
block_competition_begin(data, num_miners, dt) ==
    /\ pc = "idle"
    /\ competitions < MaxCompetitions
    /\ \E o \in adjust_difficulty(chain, difficulty, target_time) :
          /\ adj' = adjust_locals(chain, difficulty)
          /\ ret' = NoRet
          /\ IF o.panicked
             THEN /\ pc' = "panicked"
                  /\ UNCHANGED <<difficulty, now, new_block, race>>
             ELSE IF repeat_panics(o.difficulty)
             THEN /\ pc' = "panicked"
                  /\ difficulty' = o.difficulty
                  /\ UNCHANGED <<now, new_block, race>>
             ELSE /\ pc' = "compete"
                  /\ difficulty' = o.difficulty
                  /\ now' = now + dt
                  /\ new_block' = skeleton(chain, data, o.difficulty,
                                           now + dt)
                  /\ race' = [num_miners |-> num_miners, miner_id |-> 0,
                              left |-> 0,
                              attempts_per_miner |->
                                  [i \in 1..num_miners |-> 0]]
    /\ UNCHANGED <<chain, target_time, mining_stats,
                   manual_difficulty_changes, attempts>>

\* One attempt of one miner in mining_competition.  race.left = 0 means the
\* miner race.miner_id is about to draw attempts_this_round (batch);
\* otherwise race.left attempts of its batch remain.  After the last attempt
\* of a batch the next miner is up, and after the last miner the next round
\* starts with miner 0.  With num_miners = 0 the for loop is empty and the
\* outer loop repeats without changing anything: no step is enabled.  On
\* success mining_competition reads start.elapsed() and returns, and
\* block_competition pushes the block with a zeroed statistics entry and
\* returns the winner.
\* A mining_competition that returns the winner's 0-based loop index.
compete_step_index(batch, nonce, elapsed) ==
    /\ pc = "compete"
    /\ race.miner_id < race.num_miners
    /\ sum(race.attempts_per_miner) < MaxAttempts
    /\ race.left = 0 \/ batch = race.left
    /\ LET n   == batch
           b   == rehash([new_block EXCEPT !.nonce = nonce])
           apm == [race.attempts_per_miner EXCEPT
                       ![race.miner_id + 1] = @ + 1]
       IN  IF meets_target(b)
           THEN /\ chain' = push(chain, b)
                /\ mining_stats' = push(mining_stats,
                       [attempts |-> 0, total_time |-> 0,
                        method |-> "Competition"])
                /\ ret' = [call |-> "block_competition", ok |-> TRUE,
                           n |-> race.miner_id]
                /\ pc' = "idle"
                /\ new_block' = NoBlock
                /\ race' = NoRace
                /\ adj' = NoAdj
                /\ now' = now + elapsed
           ELSE /\ new_block' = b
                /\ race' = [race EXCEPT
                       !.attempts_per_miner = apm,
                       !.left = n - 1,
                       !.miner_id = IF n - 1 = 0
                                    THEN (race.miner_id + 1) % race.num_miners
                                    ELSE race.miner_id]
                /\ UNCHANGED <<chain, mining_stats, ret, pc, adj, now>>
    /\ UNCHANGED <<difficulty, target_time, manual_difficulty_changes,
                   attempts>>

compete_step(batch, nonce, elapsed) ==
    /\ pc = "compete"
    /\ race.miner_id < race.num_miners
    /\ sum(race.attempts_per_miner) < MaxAttempts
    /\ race.left = 0 \/ batch = race.left
    /\ LET n   == batch
           b   == rehash([new_block EXCEPT !.nonce = nonce])
           apm == [race.attempts_per_miner EXCEPT
                       ![race.miner_id + 1] = @ + 1]
       IN  IF meets_target(b)
           THEN /\ chain' = push(chain, b)
                /\ mining_stats' = push(mining_stats,
                       [attempts |-> 0, total_time |-> 0,
                        method |-> "Competition"])
                /\ ret' = [call |-> "block_competition", ok |-> TRUE,
                           n |-> race.miner_id + 1]
                /\ pc' = "idle"
                /\ new_block' = NoBlock
                /\ race' = NoRace
                /\ adj' = NoAdj
                /\ now' = now + elapsed
           ELSE /\ new_block' = b
                /\ race' = [race EXCEPT
                       !.attempts_per_miner = apm,
                       !.left = n - 1,
                       !.miner_id = IF n - 1 = 0
                                    THEN (race.miner_id + 1) % race.num_miners
                                    ELSE race.miner_id]
                /\ UNCHANGED <<chain, mining_stats, ret, pc, adj, now>>
    /\ UNCHANGED <<difficulty, target_time, manual_difficulty_changes,
                   attempts>>

\* -------------------------------------------------------- set_difficulty
\* A set_difficulty that also stamps the new difficulty on the newest block.
set_difficulty_retarget(new_difficulty) ==
    /\ pc = "idle"
    /\ IF new_difficulty = 0
       THEN /\ ret' = [call |-> "set_difficulty", ok |-> FALSE, n |-> 0]
            /\ UNCHANGED <<difficulty, manual_difficulty_changes, chain>>
       ELSE /\ Len(manual_difficulty_changes) < MaxChanges
            /\ manual_difficulty_changes' =
                   Append(manual_difficulty_changes,
                          <<difficulty, new_difficulty>>)
            /\ difficulty' = new_difficulty
            /\ chain' = [chain EXCEPT
                             ![Len(chain)].difficulty = new_difficulty]
            /\ ret' = [call |-> "set_difficulty", ok |-> TRUE, n |-> 0]
    /\ UNCHANGED <<target_time, mining_stats, now, pc, new_block,
                   attempts, race, adj>>

\* A set_difficulty without the check for 0.
set_difficulty_unchecked(new_difficulty) ==
    /\ pc = "idle"
    /\ Len(manual_difficulty_changes) < MaxChanges
    /\ manual_difficulty_changes' =
           Append(manual_difficulty_changes, <<difficulty, new_difficulty>>)
    /\ difficulty' = new_difficulty
    /\ ret' = [call |-> "set_difficulty", ok |-> TRUE, n |-> 0]
    /\ UNCHANGED <<chain, target_time, mining_stats, now, pc, new_block,
                   attempts, race, adj>>

\* A set_difficulty that reads old_difficulty after the assignment.
set_difficulty_late(new_difficulty) ==
    /\ pc = "idle"
    /\ IF new_difficulty = 0
       THEN /\ ret' = [call |-> "set_difficulty", ok |-> FALSE, n |-> 0]
            /\ UNCHANGED <<difficulty, manual_difficulty_changes>>
       ELSE /\ Len(manual_difficulty_changes) < MaxChanges
            /\ manual_difficulty_changes' =
                   Append(manual_difficulty_changes,
                          <<new_difficulty, new_difficulty>>)
            /\ difficulty' = new_difficulty
            /\ ret' = [call |-> "set_difficulty", ok |-> TRUE, n |-> 0]
    /\ UNCHANGED <<chain, target_time, mining_stats, now, pc, new_block,
                   attempts, race, adj>>

set_difficulty(new_difficulty) ==
    /\ pc = "idle"
    /\ IF new_difficulty = 0
       THEN /\ ret' = [call |-> "set_difficulty", ok |-> FALSE, n |-> 0]
            /\ UNCHANGED <<difficulty, manual_difficulty_changes>>
       ELSE /\ Len(manual_difficulty_changes) < MaxChanges
            /\ manual_difficulty_changes' =
                   Append(manual_difficulty_changes,
                          <<difficulty, new_difficulty>>)
            /\ difficulty' = new_difficulty
            /\ ret' = [call |-> "set_difficulty", ok |-> TRUE, n |-> 0]
    /\ UNCHANGED <<chain, target_time, mining_stats, now, pc, new_block,
                   attempts, race, adj>>

\* Readings of start.elapsed() when a search succeeds, in ticks.
Elapsed == {3}

\* The menu loop of main, every option in any order.
Next ==
    \/ /\ Len(chain) < MaxChain
       /\ \E data \in DataSet, dt \in Deltas : add_mined_block_begin(data, dt)
    \/ \E e \in Elapsed : mine_step(e)
    \/ /\ Len(chain) < MaxChain
       /\ \E data \in DataSet, m \in MinerCounts, dt \in Deltas :
              block_competition_begin(data, m, dt)
    \/ \E batch \in BatchLo..(BatchHi - 1), nonce \in 0..MaxRandNonce,
          e \in Elapsed :
           compete_step(batch, nonce, e)
    \/ \E v \in DifficultyInputs : set_difficulty(v)

Spec == Init /\ [][Next]_vars

\* The menu loop of main when the operator only ever picks "Mine a new
\* block": the chain grows longer within the same number of states.
NextMined ==
    \/ /\ Len(chain) < MaxMinedChain
       /\ \E data \in DataSet, dt \in Deltas : add_mined_block_begin(data, dt)
    \/ \E e \in Elapsed : mine_step(e)

SpecMined == Init /\ [][NextMined]_vars

\* ================================================================ claims
InFlight == pc \in {"mine", "compete"}
secs(i) == timestamp_secs(chain[i].timestamp)
HasMethod(m) == \E i \in 1..Len(mining_stats) : mining_stats[i].method = m

\* C1: every block after the first is linked to its predecessor: its
\* previous_hash is the predecessor's hash and its index is the
\* predecessor's index plus one.
ChainLinked ==
    \A i \in 2..Len(chain) :
        /\ chain[i].previous_hash = chain[i-1].hash
        /\ chain[i].index = chain[i-1].index + 1

\* C1 witness: a chain of at least four blocks built by sequential mining,
\* a competition and a manual override.
ChainLinkedWitness ==
    /\ Len(chain) >= 4
    /\ HasMethod("Normal") /\ HasMethod("Competition")
    /\ manual_difficulty_changes # <<>>

\* C2: the stored hash of every block in the chain begins with at least
\* as many '0' characters as the block's stored difficulty.
LeadingZeros ==
    \A i \in 1..Len(chain) :
        \A j \in 1..chain[i].difficulty :
            j <= Len(chain[i].hash) /\ chain[i].hash[j] = 0

\* C2 witness: a sequentially mined block and a competition block, one of
\* them at difficulty 3 or more.
LeadingZerosWitness ==
    /\ HasMethod("Normal") /\ HasMethod("Competition")
    /\ \E i \in 2..Len(chain) : chain[i].difficulty >= 3

\* C3: the stored hash of every block in the chain is the digest of its
\* stored index, timestamp, data, previous_hash, nonce and difficulty.
HashMatchesFields ==
    \A i \in 1..Len(chain) :
        chain[i].hash = Sha256Hex(content(chain[i]))

\* C3 witness: a sequentially mined block whose search needed several
\* nonces and a competition block with a random nonce other than 0.
HashMatchesFieldsWitness ==
    \E i, j \in 2..Len(chain) :
        /\ mining_stats[i-1].method = "Normal" /\ chain[i].nonce >= 2
        /\ mining_stats[j-1].method = "Competition" /\ chain[j].nonce >= 1

\* Copies of block b in which one field other than hash has another value.
Tampered(b) ==
    {[b EXCEPT !.index = b.index + 1],
     [b EXCEPT !.timestamp = b.timestamp + 1],
     [b EXCEPT !.timestamp = b.timestamp + TicksPerSec],
     [b EXCEPT !.data = b.data \o <<1>>],
     [b EXCEPT !.previous_hash = Tail(b.previous_hash)],
     [b EXCEPT !.nonce = b.nonce + 1],
     [b EXCEPT !.difficulty = b.difficulty + 1]}

\* C4: a copy of a block mined by add_mined_block or block_competition in
\* which one field other than hash was changed fails is_valid, provided the
\* digest does not collide on the two hashed strings when they differ.
TamperDetected ==
    \A i \in 2..Len(chain) :
        \A t \in Tampered(chain[i]) :
            (content(t) # content(chain[i])
                => Sha256Hex(content(t)) # Sha256Hex(content(chain[i])))
            => ~is_valid(t)

\* C5: set_difficulty(0) returns false and leaves the difficulty, the
\* audit log and the chain as they were.
SetZeroRejected ==
    [][set_difficulty(0) =>
          /\ ret'.call = "set_difficulty" /\ ~ret'.ok
          /\ difficulty' = difficulty
          /\ manual_difficulty_changes' = manual_difficulty_changes
          /\ chain' = chain]_vars

\* C5 witness: a rejected override on a chain that already has mined
\* blocks and an accepted override.
SetZeroRejectedWitness ==
    /\ ret.call = "set_difficulty" /\ ~ret.ok
    /\ Len(chain) >= 2
    /\ manual_difficulty_changes # <<>>

DifficultyAtLeastOne == difficulty >= 1

\* C8: in a call that ran adjust_difficulty on a chain of two or more
\* blocks, the difficulty went up by exactly 1 if the average was below
\* target_time / 2, down by exactly 1 if it was above target_time * 2 and
\* the difficulty was above 1, and did not change otherwise.
AdjustByOne ==
    (InFlight /\ adj.ran) =>
        difficulty =
            IF 2 * adj.total_time < target_time * adj.recent_blocks
            THEN adj.before + 1
            ELSE IF /\ adj.total_time > 2 * target_time * adj.recent_blocks
                    /\ adj.before > 1
                 THEN adj.before - 1
            ELSE adj.before

\* Sum of the last k differences of consecutive block timestamps, written
\* out for k = 1, 2, 3.
LastDiffs(k) ==
    LET n == Len(chain)
    IN  (secs(n) - secs(n - 1))
        + (IF k >= 2 THEN secs(n - 1) - secs(n - 2) ELSE 0)
        + (IF k >= 3 THEN secs(n - 2) - secs(n - 3) ELSE 0)

\* C9: a call that ran adjust_difficulty on a chain of fewer than two
\* blocks left the difficulty alone; on a longer chain it averaged exactly
\* the last min(3, length - 1) timestamp differences.
AdjustWindow ==
    (InFlight \/ pc = "panicked") =>
        IF Len(chain) < 2
        THEN ~adj.ran /\ difficulty = adj.before
        ELSE /\ adj.ran
             /\ adj.recent_blocks = Min(3, Len(chain) - 1)
             /\ adj.recent_blocks \in 1..3
             /\ adj.total_time = LastDiffs(adj.recent_blocks)

\* C9 witness: a call on a chain of five blocks whose oldest interval is
\* slow and whose last three are fast: the difficulty went up although the
\* average over all four intervals is not below target_time / 2.
AdjustWindowWitness ==
    /\ InFlight
    /\ Len(chain) = 5
    /\ secs(2) - secs(1) >= 3 * target_time
    /\ 2 * adj.total_time < 3 * target_time
    /\ 2 * (secs(5) - secs(1)) >= 4 * target_time
    /\ difficulty = adj.before + 1

\* C10: the chain only changes when a mining call completes, and then it
\* grows by exactly one block and keeps every earlier block as it was.
AppendOnly ==
    [][/\ chain' # chain => InFlight /\ pc' = "idle"
       /\ (InFlight /\ pc' = "idle") =>
              /\ Len(chain') = Len(chain) + 1
              /\ \A i \in 1..Len(chain) : chain'[i] = chain[i]]_vars

\* C10 witness: blocks appended by both kinds of call, with an override
\* in between.
AppendOnlyWitness ==
    /\ Len(chain) >= 3
    /\ HasMethod("Normal") /\ HasMethod("Competition")
    /\ manual_difficulty_changes # <<>>
    /\ ret.call \in {"add_mined_block", "block_competition"}

\* C11 as stated: when a mining call has returned, the timestamp of the
\* block it appended is the clock value at the end of the search.
TimestampAtCompletion ==
    (pc = "idle" /\ ret.call \in {"add_mined_block", "block_competition"})
        => last_block(chain).timestamp = now

\* C11 amended: the timestamp is the clock reading made by Block::new when
\* the block is created, before the search starts; the search leaves it
\* alone and the block is pushed with it.
TimestampAtCreation ==
    [][/\ (~InFlight /\ InFlight') => new_block'.timestamp = now'
       /\ (InFlight /\ InFlight') =>
              new_block'.timestamp = new_block.timestamp /\ now' = now
       /\ (InFlight /\ pc' = "idle") =>
              /\ last_block(chain').timestamp = new_block.timestamp
              /\ last_block(chain').timestamp = now]_vars

\* C11 witness: a sequentially mined block whose search took several
\* attempts has just been appended, and the clock has moved on since its
\* timestamp was taken.
TimestampAtCreationWitness ==
    /\ pc = "idle" /\ ret.call = "add_mined_block" /\ ret.n >= 2
    /\ last_block(chain).timestamp < now
    /\ last_block(chain).timestamp > chain[1].timestamp

\* C12: in add_mined_block and block_competition adjust_difficulty runs
\* once, before the block is built: the block under search carries the
\* chain's difficulty as that one adjustment left it, neither changes during
\* the search, and the appended block's difficulty is the chain's difficulty
\* when the call returns.
AdjustThenBuild ==
    [][/\ (pc = "idle" /\ InFlight') =>
              /\ [difficulty |-> difficulty', panicked |-> FALSE]
                     \in adjust_difficulty(chain, difficulty, target_time)
              /\ new_block'.difficulty = difficulty'
       /\ (InFlight /\ InFlight') =>
              /\ difficulty' = difficulty
              /\ new_block'.difficulty = new_block.difficulty
       /\ (InFlight /\ pc' = "idle") =>
              /\ difficulty' = difficulty
              /\ last_block(chain').difficulty = new_block.difficulty
              /\ last_block(chain').difficulty = difficulty']_vars

\* C12 witness: with no manual override, a returned mining call appended a
\* block whose difficulty differs from its predecessor's, so the adjustment
\* changed the difficulty, and it is the chain's difficulty at return.
AdjustThenBuildWitness ==
    /\ pc = "idle" /\ ret.call \in {"add_mined_block", "block_competition"}
    /\ manual_difficulty_changes = <<>>
    /\ Len(chain) >= 3
    /\ last_block(chain).difficulty # chain[Len(chain) - 1].difficulty
    /\ last_block(chain).difficulty = difficulty

\* The block b with its nonce replaced by k and its hash recomputed.
WithNonce(b, k) == rehash([b EXCEPT !.nonce = k])

\* C13: the sequential search starts at nonce 0 and tries 0, 1, 2, ... in
\* order: while it runs, the attempts made equal the current nonce and every
\* smaller nonce has failed; when add_mined_block returns, the appended
\* block's nonce is the smallest qualifying one and the returned attempt
\* count is that nonce plus one.
SmallestNonce ==
    /\ pc = "mine" =>
          /\ attempts = new_block.nonce
          /\ \A k \in 0..(new_block.nonce - 1) :
                 ~meets_target(WithNonce(new_block, k))
    /\ (pc = "idle" /\ ret.call = "add_mined_block") =>
          LET b == last_block(chain)
          IN  /\ meets_target(b)
              /\ \A k \in 0..(b.nonce - 1) : ~meets_target(WithNonce(b, k))
              /\ ret.n = b.nonce + 1
              /\ mining_stats[Len(mining_stats)].attempts = b.nonce + 1

\* C13 witness: a sequential search returned after at least three attempts,
\* so nonces 0 and 1 were tried and failed.
SmallestNonceWitness ==
    /\ pc = "idle" /\ ret.call = "add_mined_block"
    /\ last_block(chain).nonce >= 2
    /\ ret.n = last_block(chain).nonce + 1

\* C14: in a competition with at least one miner every attempt belongs to
\* the miner whose turn it is; a failed attempt is counted for that miner
\* only, the same miner goes on while its batch lasts and the miner with the
\* next id (miner 1 again after the last) follows when the batch is used up;
\* the first qualifying attempt ends the competition and its miner is the
\* winner, with an id in 1..num_miners; with a single miner the winner is
\* miner 1 and the total attempt count is that miner's attempt count.
CompetitionOrder ==
    [][pc = "compete" =>
          LET m   == race.miner_id + 1
              apm == [race.attempts_per_miner EXCEPT ![m] = @ + 1]
          IN  /\ pc' = "compete" =>
                     /\ race'.attempts_per_miner = apm
                     /\ ~meets_target(new_block')
                     /\ race.left > 0 => race'.left = race.left - 1
                     /\ race'.left > 0 => race'.miner_id = race.miner_id
                     /\ race'.left = 0 =>
                            race'.miner_id = IF m = race.num_miners
                                             THEN 0 ELSE m
              /\ pc' = "idle" =>
                     /\ meets_target(last_block(chain'))
                     /\ ret'.n = m
                     /\ ret'.n \in 1..race.num_miners
                     /\ race.num_miners = 1 =>
                            /\ ret'.n = 1
                            /\ sum(apm) = apm[1]]_vars

\* C14 witness: a competition returned miner 2 as the winner, so miner 1's
\* whole batch was tried and failed before miner 2 made an attempt.
CompetitionOrderWitness ==
    /\ pc = "idle" /\ ret.call = "block_competition" /\ ret.n = 2
    /\ HasMethod("Competition")

\* C15: the statistics log has one entry per block after the genesis block,
\* in chain order: entry i belongs to block i + 1.  A Normal entry holds the
\* attempts and elapsed time of that block's sequential search (and is what
\* add_mined_block returned); a Competition entry holds zeros.
StatsPerBlock ==
    /\ Len(mining_stats) = Len(chain) - 1
    /\ \A i \in 1..Len(mining_stats) :
          LET s == mining_stats[i]
          IN  /\ s.method \in {"Normal", "Competition"}
              /\ s.method = "Normal" =>
                     /\ s.attempts = chain[i + 1].nonce + 1
                     /\ s.total_time \in Elapsed
              /\ s.method = "Competition" =>
                     s.attempts = 0 /\ s.total_time = 0
    /\ (pc = "idle" /\ ret.call = "add_mined_block") =>
          /\ mining_stats[Len(mining_stats)].method = "Normal"
          /\ mining_stats[Len(mining_stats)].attempts = ret.n
    /\ (pc = "idle" /\ ret.call = "block_competition") =>
          mining_stats[Len(mining_stats)].method = "Competition"

\* C15 witness: the log holds a Competition entry followed by a Normal
\* entry whose search took more than one attempt.
StatsPerBlockWitness ==
    /\ Len(mining_stats) >= 2 /\ Len(mining_stats) = Len(chain) - 1
    /\ \E i \in 1..Len(mining_stats), j \in 1..Len(mining_stats) :
          /\ i < j
          /\ mining_stats[i].method = "Competition"
          /\ mining_stats[j].method = "Normal"
          /\ mining_stats[j].attempts > 1

\* The number of '0' characters at the start of h.
RECURSIVE ZeroPrefixLen(_)
ZeroPrefixLen(h) ==
    IF h = <<>> \/ Head(h) # 0 THEN 0 ELSE 1 + ZeroPrefixLen(Tail(h))

\* Blocks handed to is_valid: the newest block of the chain, the block
\* under search, and copies of the newest block with a changed nonce or a
\* changed difficulty whose stored hash was left alone.
Candidates ==
    {last_block(chain),
     [last_block(chain) EXCEPT !.nonce = @ + 1],
     [last_block(chain) EXCEPT !.difficulty = @ + 1]}
    \cup (IF InFlight THEN {new_block} ELSE {})

\* C16: is_valid(block) is true exactly when the hash recomputed from the
\* block's stored fields equals the stored hash and the stored hash starts
\* with at least block.difficulty '0' characters, the block's own
\* difficulty.
ValidIffOwnTarget ==
    \A b \in Candidates :
        is_valid(b) <=> /\ Sha256Hex(content(b)) = b.hash
                        /\ ZeroPrefixLen(b.hash) >= b.difficulty

\* C16 witness: the chain's difficulty is above the number of leading zeros
\* of a chain block that is_valid accepts, and is_valid rejects a block
\* whose stored hash is the recomputed one but has too few leading zeros and
\* a block with enough leading zeros whose stored hash is stale.
ValidIffOwnTargetWitness ==
    /\ Len(chain) >= 2
    /\ is_valid(last_block(chain))
    /\ ZeroPrefixLen(last_block(chain).hash) < difficulty
    /\ \E b \in Candidates :
          /\ calculate_hash(b) = b.hash
          /\ ZeroPrefixLen(b.hash) < b.difficulty /\ ~is_valid(b)
    /\ \E b \in Candidates :
          /\ calculate_hash(b) # b.hash
          /\ ZeroPrefixLen(b.hash) >= b.difficulty /\ ~is_valid(b)

\* C17: the chain is never empty and its first block is always the genesis
\* block the chain was created with, with index 0 and previous hash "0";
\* as long as no mining call has completed the chain holds that block only.
GenesisFirst ==
    /\ Len(chain) >= 1
    /\ chain[1] = genesis(StartTick)
    /\ chain[1].index = 0
    /\ chain[1].previous_hash = <<0>>
    /\ chain[1].data = GenesisData
    /\ mining_stats = <<>> => chain = <<genesis(StartTick)>>

\* C17 witness: after a sequential search, a competition and a manual
\* override the first block is still the genesis block.
GenesisFirstWitness ==
    /\ Len(chain) >= 3
    /\ HasMethod("Normal") /\ HasMethod("Competition")
    /\ manual_difficulty_changes # <<>>
    /\ chain[1].index = 0 /\ chain[1].previous_hash = <<0>>

\* A step that starts add_mined_block, and one that starts either mining
\* call.
StartsMining ==
    \E data \in DataSet, dt \in Deltas : add_mined_block_begin(data, dt)
StartsAnySearch ==
    \/ StartsMining
    \/ \E data \in DataSet, m \in MinerCounts, dt \in Deltas :
           block_competition_begin(data, m, dt)

\* C18 as stated: add_mined_block has no failure path: once started it
\* goes into its search, and the search ends only by appending the block.
SearchOnlySucceeds ==
    [][/\ StartsMining => pc' = "mine"
       /\ pc = "mine" =>
              /\ pc' \in {"mine", "idle"}
              /\ pc' = "idle" => Len(chain') = Len(chain) + 1]_vars

\* C19: block_competition with num_miners = 0 runs adjust_difficulty and
\* then never returns: it appends no block and no statistics entry, and once
\* it is in its empty round loop nothing changes any more, so no nonce is
\* ever tried.
ZeroMinersStuck ==
    [][/\ (\E data \in DataSet, dt \in Deltas :
               block_competition_begin(data, 0, dt)) =>
              /\ pc' \in {"compete", "panicked"}
              /\ pc' = "compete" =>
                     /\ race'.num_miners = 0
                     /\ new_block'.nonce = 0 /\ new_block'.hash = <<>>
                     /\ [difficulty |-> difficulty', panicked |-> FALSE]
                            \in adjust_difficulty(chain, difficulty,
                                                  target_time)
              /\ chain' = chain /\ mining_stats' = mining_stats
       /\ ~(pc = "compete" /\ race.num_miners = 0)]_vars

\* C19 witness: a competition without miners is in its round loop after
\* adjust_difficulty changed the chain's difficulty; no nonce was tried.
ZeroMinersStuckWitness ==
    /\ pc = "compete" /\ race.num_miners = 0
    /\ adj.ran /\ adj.before # difficulty
    /\ new_block.nonce = 0 /\ new_block.hash = <<>>
    /\ new_block.index = Len(chain)

\* C20 as stated: a mining call made while the chain's difficulty, as
\* adjust_difficulty leaves it, exceeds the digest length goes into its
\* search and stays there for ever: it never ends and never appends a block.
HopelessSearchNeverEnds ==
    [][/\ (StartsAnySearch /\ difficulty' > HashLen) => InFlight'
       /\ (InFlight /\ new_block.difficulty > HashLen) =>
              InFlight' /\ chain' = chain]_vars

\* C21 as stated: the increment `difficulty += 1` of adjust_difficulty
\* never leaves the unsigned 64-bit range: whenever a mining call finds the
\* recent blocks too fast, the call goes on with the difficulty one above
\* what it was, and that value is at most u64::MAX.
IncrementInRange ==
    [][(/\ StartsAnySearch
        /\ Len(chain) >= 2
        /\ too_fast(chain, target_time)) =>
           /\ difficulty + 1 <= U64Max
           /\ difficulty' = difficulty + 1]_vars

\* C22: the difficulty stored in a block never changes once the block is in
\* the chain, whatever adjust_difficulty and set_difficulty do to the
\* chain's difficulty, and after every operation every block of the chain
\* satisfies is_valid.
StoredDifficultyFixed ==
    [][/\ \A i \in 1..Len(chain) :
              chain'[i].difficulty = chain[i].difficulty
       /\ \A i \in 1..Len(chain') : is_valid(chain'[i])]_vars

\* C22 witness: adjust_difficulty raised the difficulty for a block of the
\* chain, set_difficulty later put the chain's difficulty below that
\* block's, and the block is still valid with its own difficulty.
StoredDifficultyFixedWitness ==
    /\ pc = "idle" /\ ret.call = "set_difficulty" /\ ret.ok
    /\ \E i \in 2..Len(chain) :
          /\ chain[i].difficulty > chain[i - 1].difficulty
          /\ chain[i].difficulty > difficulty
          /\ is_valid(chain[i])

====
